---- MODULE Spec2Model ----
(***************************************************************************)
(* The NAME extension's toolchain commands: assemble, link, run and the    *)
(* chained assemble-link-run command (name-ext/src/commands).  Each        *)
(* command handler, each child-process event handler and the promise       *)
(* callbacks that run in the same turn of the event loop are one action.   *)
(***************************************************************************)
EXTENDS Naturals, Sequences, FiniteSets

VARIABLES
  platform,     \* the host's process.platform and process.arch
  cmds,         \* per command invocation: its handler's locals and promises
  channel,      \* the text of each output channel
  file_chained  \* the file-level 'let chained' of the earlier registerCommands;
                \* the current commands have no such flag and never touch it

vars == <<platform, cmds, channel, file_chained>>

\* ------------------------------------------------------------------ bounds

\* Chunks a child process writes to its error stream before it terminates.
MaxChunks == 2

\* The command invocations of a behaviour, numbered in the order the user
\* makes them: two, so that any command can overlap any other (or itself).
Cmds == {1, 2}

Tools == {"as", "ld", "emu"}

\* process.platform / process.arch of the extension host.
Platforms ==
  { [platform |-> "win32",   arch |-> "x64"],
    [platform |-> "darwin",  arch |-> "x64"],
    [platform |-> "darwin",  arch |-> "arm64"],
    [platform |-> "linux",   arch |-> "x64"],
    [platform |-> "freebsd", arch |-> "x64"] }

\* context.extensionPath joined with 'bin'.
name_bin_directory == "ext/bin"

\* ------------------------------------------------------------------- paths

\* A file path is <<dir, name, ext>>; undefined (no active editor) is <<>>.
undefined == <<>>

ActiveFiles == { undefined, <<"ws", "fib", ".asm">> }

\* path.format({ ...path.parse(p), base: undefined, ext: e })
WithExt(p, e) == <<p[1], p[2], e>>

\* path.dirname(p)
dirname(p) == p[1]

\* What a directory listing can hold: entries <<name, ext, type>>.
\* fs.readdirSync returns the names only; vscode.workspace.fs.readDirectory
\* returns each name with its vscode.FileType.
DirListings ==
  { <<>>,
    << <<"fib", ".o", "File">>, <<"out", ".o", "Directory">> >>,
    << <<"lib", ".o", "File">>, <<"fib", ".asm", "File">>, <<"fib", ".o", "File">> >> }

\* file.endsWith('.o')
endsWithO(file) == file[2] = ".o"

RECURSIVE objectFiles_everyEntry(_, _)
\* A loop over the listing that takes every entry, whatever its name ends in.
objectFiles_everyEntry(current_dir, files) ==
  IF files = <<>> THEN <<>>
  ELSE << <<current_dir, Head(files)[1], Head(files)[2]>> >>
         \o objectFiles_everyEntry(current_dir, Tail(files))

RECURSIVE objectFiles_reversed(_, _)
\* A loop over the listing that puts each entry found before the earlier ones.
objectFiles_reversed(current_dir, files) ==
  IF files = <<>> THEN <<>>
  ELSE LET rest == objectFiles_reversed(current_dir, Tail(files))
           file == Head(files)
       IN IF endsWithO(file) THEN rest \o << <<current_dir, file[1], file[2]>> >>
          ELSE rest

RECURSIVE objectFiles(_, _)
\* The loop over the listing: every entry ending in '.o', joined with the
\* directory, in listing order.
objectFiles(current_dir, files) ==
  IF files = <<>> THEN <<>>
  ELSE LET rest == objectFiles(current_dir, Tail(files))
           file == Head(files)
       IN IF endsWithO(file) THEN << <<current_dir, file[1], file[2]>> >> \o rest
          ELSE rest

RECURSIVE objectFilesOfTypeFile(_, _)
\* The loop of the link command over the listing: every entry that is a
\* regular file and ends in '.o', joined with the directory, in listing order.
objectFilesOfTypeFile(current_dir, files) ==
  IF files = <<>> THEN <<>>
  ELSE LET rest == objectFilesOfTypeFile(current_dir, Tail(files))
           file == Head(files)
       IN IF file[3] = "File" /\ endsWithO(file)
          THEN << <<current_dir, file[1], file[2]>> >> \o rest
          ELSE rest

\* A binary path is [dir, base]: base is the pieces of the file name.
NoPath == [dir |-> "", base |-> <<>>]

join(dir, base) == [dir |-> dir, base |-> base]

\* getBinName with the two macOS architectures exchanged.
getBinName_swapsMacArch(plat, nomenclature) ==
  CASE plat.platform = "win32"  -> [ok |-> TRUE, name |-> <<nomenclature, ".exe">>]
    [] plat.platform = "darwin" ->
         [ok |-> TRUE,
          name |-> IF plat.arch = "x64" THEN <<nomenclature, "_arm64", ".app">>
                   ELSE <<nomenclature, "_x86_64", ".app">>]
    [] plat.platform = "linux"  -> [ok |-> TRUE, name |-> <<nomenclature, ".bin">>]
    [] OTHER                    -> [ok |-> FALSE, name |-> <<>>]

\* A getBinName with hidden state: it appends the platform suffix only on the
\* first call made in the extension host.
getBinName_suffixOnce(plat, nomenclature) ==
  IF \E c \in DOMAIN cmds : \E t \in DOMAIN cmds[c].inv : cmds[c].inv[t].checked
  THEN [ok |-> plat.platform \in {"win32", "darwin", "linux"}, name |-> <<nomenclature>>]
  ELSE CASE plat.platform = "win32"  -> [ok |-> TRUE, name |-> <<nomenclature, ".exe">>]
         [] plat.platform = "darwin" ->
              [ok |-> TRUE,
               name |-> IF plat.arch = "x64" THEN <<nomenclature, "_x86_64", ".app">>
                        ELSE <<nomenclature, "_arm64", ".app">>]
         [] plat.platform = "linux"  -> [ok |-> TRUE, name |-> <<nomenclature, ".bin">>]
         [] OTHER                    -> [ok |-> FALSE, name |-> <<>>]

\* getBinName: [ok, name]; ok = FALSE is the thrown Error('Unknown platform').
getBinName(plat, nomenclature) ==
  CASE plat.platform = "win32"  -> [ok |-> TRUE, name |-> <<nomenclature, ".exe">>]
    [] plat.platform = "darwin" ->
         [ok |-> TRUE,
          name |-> IF plat.arch = "x64" THEN <<nomenclature, "_x86_64", ".app">>
                   ELSE <<nomenclature, "_arm64", ".app">>]
    [] plat.platform = "linux"  -> [ok |-> TRUE, name |-> <<nomenclature, ".bin">>]
    [] OTHER                    -> [ok |-> FALSE, name |-> <<>>]

\* ---------------------------------------------------------------- messages

\* A promise value or notification text: a fixed text, the path it names and
\* the child's error text it quotes.
Msg(text) == [text |-> text, path |-> NoPath, stderr |-> <<>>]

MsgPath(text, p) == [text |-> text, path |-> p, stderr |-> <<>>]

NoMsg == Msg("")

\* A piece of output-channel text: a canned message or a chunk of a child's
\* error stream (the i-th chunk written by tool t of command c).
Text(s) == <<s, 0, 0>>

Chunk(c, t, i) == <<t, c, i>>

\* ------------------------------------------------------------- invocations

\* What the existence check and the spawn of one invocation can meet:
\*   exists: fs.existsSync(path);
\*   spawn:  "ok", "throw" (spawn throws synchronously) or "errorEvent" (the
\*           child emits 'error', for which no listener is registered, and
\*           never emits 'close').
SpawnResults == {"ok", "throw", "errorEvent"}

\* The exit codes a 'close' event can carry: zero and non-zero.
ExitCodes == {0, 1}

Launches ==
  { [exists |-> FALSE, spawn |-> "ok"] } \cup
  { [exists |-> TRUE, spawn |-> s] : s \in SpawnResults }

TerminalLaunches == { [exists |-> b, spawn |-> "ok"] : b \in BOOLEAN }

\* One call of a tool invoker (one promise).
\*   st:       "none" (not called), "running" (awaiting 'close'),
\*             "stuck" (never settles), "settled"
\*   proc:     the tool's process: "none", "running", "exited"
\*   spawned:  child processes / terminals created by this call
\*   written:  chunks the process has written to its error stream
\*   code:     the exit code the 'close' event carried (once proc = "exited")
\*   shows:    outputChannel.show calls; updates: clear+append pairs
\*   argv:     the arguments of spawn; for the runner, the file it is told to run
\*   commandLine: the pieces of the text typed into a terminal's shell by
\*             terminal.sendText (<<>> when no terminal is used)
NoInv ==
  [ st |-> "none", chained |-> FALSE, binPath |-> NoPath, checked |-> FALSE,
    existed |-> FALSE, argv |-> <<>>, spawned |-> 0, proc |-> "none",
    written |-> 0, hasErrors |-> FALSE, errorBuffer |-> <<>>,
    code |-> 0, outcome |-> "none", message |-> NoMsg, shows |-> 0,
    updates |-> 0, commandLine |-> <<>> ]

reject(r, m) == [r EXCEPT !.st = "settled", !.outcome = "rejected", !.message = m]

resolve(r, m) == [r EXCEPT !.st = "settled", !.outcome = "resolved", !.message = m]

\* spawn(path, argv) inside a promise executor.
spawn(r, argv, launch) ==
  CASE launch.spawn = "ok" ->
         [r EXCEPT !.st = "running", !.argv = argv, !.spawned = 1, !.proc = "running"]
    [] launch.spawn = "throw" ->
         reject([r EXCEPT !.argv = argv], Msg("spawn error"))
    [] OTHER ->
         [r EXCEPT !.st = "stuck", !.argv = argv]

\* runAssembler settling its promise as soon as the child is spawned.
runAssembler_resolvesOnSpawn(plat, name_bin_dir, infile, outfile, chained, launch) ==
  LET bin == getBinName(plat, "name-as")
      assemblerPath == join(name_bin_dir, bin.name)
      r0 == [NoInv EXCEPT !.chained = chained]
      r1 == [r0 EXCEPT !.binPath = assemblerPath, !.checked = TRUE,
                       !.existed = launch.exists]
      child == spawn(r1, <<infile, outfile>>, launch)
  IN IF ~bin.ok THEN reject(r0, Msg("Unknown platform"))
     ELSE IF ~launch.exists
          THEN reject(r1, MsgPath("Assembler not found at path: ", assemblerPath))
          ELSE IF child.st = "running"
               THEN resolve(child, Msg("Assembly was successful."))
               ELSE child

\* The executor of runAssembler's promise.
runAssembler(plat, name_bin_dir, infile, outfile, chained, launch) ==
  LET bin == getBinName(plat, "name-as")
      assemblerPath == join(name_bin_dir, bin.name)
      r0 == [NoInv EXCEPT !.chained = chained]
      r1 == [r0 EXCEPT !.binPath = assemblerPath, !.checked = TRUE,
                       !.existed = launch.exists]
  IN IF ~bin.ok THEN reject(r0, Msg("Unknown platform"))
     ELSE IF ~launch.exists
          THEN reject(r1, MsgPath("Assembler not found at path: ", assemblerPath))
          ELSE spawn(r1, <<infile, outfile>>, launch)

\* runLinker spawning without the existence check.
runLinker_noExistsCheck(name_bin_dir, infiles, outfile, chained, launch) ==
  LET linkerPath == join(name_bin_dir, <<"name-ld">>)
      r0 == [NoInv EXCEPT !.chained = chained]
      r1 == [r0 EXCEPT !.binPath = linkerPath, !.checked = TRUE,
                       !.existed = launch.exists]
  IN spawn(r1, << <<"--output-filename">>, outfile >> \o infiles, launch)

\* runLinker settling its promise as soon as the child is spawned.
runLinker_resolvesOnSpawn(name_bin_dir, infiles, outfile, chained, launch) ==
  LET linkerPath == join(name_bin_dir, <<"name-ld">>)
      r0 == [NoInv EXCEPT !.chained = chained]
      r1 == [r0 EXCEPT !.binPath = linkerPath, !.checked = TRUE,
                       !.existed = launch.exists]
      child == spawn(r1, << <<"--output-filename">>, outfile >> \o infiles, launch)
  IN IF ~launch.exists
     THEN reject(r1, MsgPath("Linker not found at path: ", linkerPath))
     ELSE IF child.st = "running"
          THEN resolve(child, Msg("Linking was successful."))
          ELSE child

\* runLinker refusing an empty list of input files before looking for the binary.
runLinker_rejectsEmpty(name_bin_dir, infiles, outfile, chained, launch) ==
  LET linkerPath == join(name_bin_dir, <<"name-ld">>)
      r0 == [NoInv EXCEPT !.chained = chained]
      r1 == [r0 EXCEPT !.binPath = linkerPath, !.checked = TRUE,
                       !.existed = launch.exists]
  IN IF infiles = <<>> THEN reject(r0, Msg("No object files found."))
     ELSE IF ~launch.exists
     THEN reject(r1, MsgPath("Linker not found at path: ", linkerPath))
     ELSE spawn(r1, << <<"--output-filename">>, outfile >> \o infiles, launch)

\* The executor of runLinker's promise.
runLinker(name_bin_dir, infiles, outfile, chained, launch) ==
  LET linkerPath == join(name_bin_dir, <<"name-ld">>)
      r0 == [NoInv EXCEPT !.chained = chained]
      r1 == [r0 EXCEPT !.binPath = linkerPath, !.checked = TRUE,
                       !.existed = launch.exists]
  IN IF ~launch.exists
     THEN reject(r1, MsgPath("Linker not found at path: ", linkerPath))
     ELSE spawn(r1, << <<"--output-filename">>, outfile >> \o infiles, launch)

\* The executor of runWithoutDebugging's promise: the runner is started in a
\* new terminal and the promise resolves at once.
runWithoutDebugging(plat, name_bin_dir, infile, launch) ==
  LET bin == getBinName(plat, "name-emu")
      runnerPath == join(name_bin_dir, bin.name)
      r1 == [NoInv EXCEPT !.binPath = runnerPath, !.checked = TRUE,
                          !.existed = launch.exists]
  IN IF ~bin.ok THEN reject(NoInv, Msg("Unknown platform"))
     ELSE IF ~launch.exists
          THEN reject(r1, MsgPath("Runner not found at path: ", runnerPath))
          ELSE resolve([r1 EXCEPT !.argv = <<infile>>, !.spawned = 1,
                                  !.proc = "running",
                                  !.commandLine =
                                     <<runnerPath, " \"", infile, "\"">>],
                       Msg("Runner launched in terminal."))

\* ---------------------------------------------------------- close handlers

\* runAssembler's 'close' handler revealing the channel only on failure.
assemblerShows_onlyOnFailure(hasErrors, chained) ==
  IF hasErrors THEN 1 ELSE 0

\* outputChannel.show(true) calls made by runAssembler's 'close' handler.
assemblerShows(hasErrors, chained) ==
  IF hasErrors THEN 1
  ELSE IF ~chained THEN 1 ELSE 0

\* outputChannel.show(true) calls made by runLinker's 'close' handler.
linkerShows(hasErrors, chained) ==
  IF hasErrors
  THEN IF ~chained THEN 1 ELSE 0
  ELSE 1

\* The text runAssembler's 'close' handler appends after clearing.
assemblerText(r) ==
  IF r.hasErrors THEN r.errorBuffer
  ELSE << Text("File assembled successfully.") >>

\* The text runLinker's 'close' handler appends after clearing.
linkerText(r) ==
  IF r.hasErrors THEN r.errorBuffer
  ELSE << Text("Files linked successfully.") >>

\* runAssembler's 'close' handler also failing on a non-zero exit code.
assemblerSettle_checksCode(r, code) ==
  IF r.hasErrors \/ code # 0
  THEN reject(r, Msg("Assembly failed. Check output for details."))
  ELSE resolve(r, Msg("Assembly was successful."))

\* runAssembler's 'close' handler rejecting with the captured error text.
assemblerSettle_quotesStderr(r, code) ==
  IF r.hasErrors THEN reject(r, [Msg("") EXCEPT !.stderr = r.errorBuffer])
  ELSE resolve(r, Msg("Assembly was successful."))

\* How runAssembler's 'close' handler settles the promise.
assemblerSettle(r, code) ==
  IF r.hasErrors THEN reject(r, Msg("Assembly failed. Check output for details."))
  ELSE resolve(r, Msg("Assembly was successful."))

\* runLinker's 'close' handler resolving whatever the child wrote.
linkerSettle_alwaysResolves(r, code) ==
  resolve(r, Msg("Linking was successful."))

\* How runLinker's 'close' handler settles the promise.
linkerSettle(r, code) ==
  IF r.hasErrors THEN reject(r, Msg("Linking failed. Check output for details."))
  ELSE resolve(r, Msg("Linking was successful."))

\* runAssembler's 'close' handler leaving the channel alone on success.
assemblerOnClose_noUpdateOnSuccess(r, code) ==
  LET shown == [r EXCEPT !.proc = "exited", !.code = code,
                         !.updates = @ + (IF r.hasErrors THEN 1 ELSE 0),
                         !.shows = @ + assemblerShows(r.hasErrors, r.chained)]
  IN assemblerSettle(shown, code)

\* runAssembler's 'close' handler, but for the channel's text.
assemblerOnClose(r, code) ==
  LET shown == [r EXCEPT !.proc = "exited", !.code = code, !.updates = @ + 1,
                         !.shows = @ + assemblerShows(r.hasErrors, r.chained)]
  IN assemblerSettle(shown, code)

\* runLinker's 'close' handler, but for the channel's text.
linkerOnClose(r, code) ==
  LET shown == [r EXCEPT !.proc = "exited", !.code = code, !.updates = @ + 1,
                         !.shows = @ + linkerShows(r.hasErrors, r.chained)]
  IN linkerSettle(shown, code)

\* A stderr 'data' handler that collects the text but not the flag.
onStderrData_noFlag(r, data) ==
  [r EXCEPT !.errorBuffer = Append(@, data)]

\* A stderr 'data' handler that puts each new chunk before the older ones.
onStderrData_prepends(r, data) ==
  [r EXCEPT !.hasErrors = TRUE, !.errorBuffer = <<data>> \o @]

\* The stderr 'data' handler of runAssembler and runLinker.
onStderrData(r, data) ==
  [r EXCEPT !.hasErrors = TRUE, !.errorBuffer = Append(@, data)]

\* ------------------------------------------------------------------- state

\* The output channels: 'NAME-AS' (assemble.ts) and 'NAME' (link.ts).
Channels == {"NAME-AS", "NAME"}

\* listed, discovered: <<>> before the directory was listed, then << files >>
\* (the listing) and << infiles >> (the link inputs taken from it).
NoCmd ==
  [ kind |-> "none", pc |-> "idle", file |-> undefined, listed |-> <<>>, discovered |-> <<>>,
    inv |-> [t \in Tools |-> NoInv], notes |-> <<>> ]

Init ==
  /\ platform \in Platforms
  /\ cmds = [c \in Cmds |-> NoCmd]
  /\ channel = [n \in Channels |-> <<>>]
  /\ file_chained = FALSE

\* vscode.window.showInformationMessage / showErrorMessage
showInformationMessage(cs, m) ==
  [cs EXCEPT !.notes = Append(@, [type |-> "info", msg |-> m])]

showErrorMessage(cs, m) ==
  [cs EXCEPT !.notes = Append(@, [type |-> "error", msg |-> m])]

\* A then/catch pair whose catch reports a success.
notifyOutcome_alwaysInfo(cs, r) ==
  [cs EXCEPT !.notes = Append(@, [type |-> "info", msg |-> r.message])]

\* The then/catch pair every command ends with: notify the promise's value.
notifyOutcome(cs, r) ==
  IF r.outcome = "resolved" THEN showInformationMessage(cs, r.message)
  ELSE showErrorMessage(cs, r.message)

\* The end of a turn of the event loop: command c's locals and the channels.
Finish(c, cs, ch) ==
  /\ cmds' = [cmds EXCEPT ![c] = cs]
  /\ channel' = ch
  /\ UNCHANGED <<platform, file_chained>>

\* Commands are numbered in the order the user invokes them.
CanStart(c) ==
  /\ cmds[c].kind = "none"
  /\ IF c = 1 THEN TRUE ELSE cmds[c - 1].kind # "none"

Started(kind, f) == [NoCmd EXCEPT !.kind = kind, !.pc = "running", !.file = f]

\* A handler that returns without a notification when no file is open.
NoFileOpen_silent(kind) ==
  [Started(kind, undefined) EXCEPT !.pc = "done"]

\* The branch every handler takes when there is no active editor.
NoFileOpen(kind) ==
  [showErrorMessage(Started(kind, undefined), Msg("No file open.")) EXCEPT !.pc = "done"]

\* --------------------------------------------- the assemble-link-run chain

\* A chain that goes on to the next stage whatever the stage's outcome.
chainContinues_always(r) == TRUE

\* Whether the chain goes on to the next stage once a stage's promise settled.
chainContinues(r) == r.outcome = "resolved"

\* The callbacks on runWithoutDebugging's promise in the chain.
PipelineAfterRuntime(c, cs, ch) ==
  Finish(c, [notifyOutcome(cs, cs.inv["emu"]) EXCEPT !.pc = "done"], ch)

\* A chain that also reports the linker's success before starting the runner.
PipelineAfterLinker_notifiesSuccess(c, cs, ch) ==
  LET r == cs.inv["ld"] IN
  IF r.outcome = "none" THEN Finish(c, cs, ch)
  ELSE IF chainContinues(r)
  THEN \E launch \in TerminalLaunches :
         LET linker_output_file == WithExt(cs.file, ".o")
             emu == runWithoutDebugging(platform, name_bin_directory,
                                        linker_output_file, launch)
         IN PipelineAfterRuntime(c, [showInformationMessage(cs, r.message)
                                       EXCEPT !.inv["emu"] = emu], ch)
  ELSE Finish(c, [showErrorMessage(cs, r.message) EXCEPT !.pc = "done"], ch)

\* The callbacks on runLinker's promise in the chain.
PipelineAfterLinker(c, cs, ch) ==
  LET r == cs.inv["ld"] IN
  IF r.outcome = "none" THEN Finish(c, cs, ch)
  ELSE IF chainContinues(r)
  THEN \E launch \in TerminalLaunches :
         LET linker_output_file == WithExt(cs.file, ".o")
             emu == runWithoutDebugging(platform, name_bin_directory,
                                        linker_output_file, launch)
         IN PipelineAfterRuntime(c, [cs EXCEPT !.inv["emu"] = emu], ch)
  ELSE Finish(c, [showErrorMessage(cs, r.message) EXCEPT !.pc = "done"], ch)

\* A chain that goes on to the linker only if the assembler's channel was
\* empty before this turn.
PipelineAfterAssembler_readsChannel(c, cs, ch) ==
  LET r == cs.inv["as"] IN
  IF r.outcome = "none" THEN Finish(c, cs, ch)
  ELSE IF chainContinues(r) /\ channel["NAME-AS"] = <<>>
  THEN \E files \in DirListings, launch \in Launches :
         LET linker_output_file == WithExt(cs.file, ".o")
             current_dir == dirname(cs.file)
             infiles == objectFiles(current_dir, files)
             ld == runLinker(name_bin_directory, infiles, linker_output_file,
                             TRUE, launch)
         IN PipelineAfterLinker(c, [cs EXCEPT !.listed = <<files>>,
                                              !.discovered = <<infiles>>,
                                              !.inv["ld"] = ld], ch)
  ELSE Finish(c, [showErrorMessage(cs, r.message) EXCEPT !.pc = "done"], ch)

\* A chain that starts the assembler once more when it failed on stderr output.
PipelineAfterAssembler_retries(c, cs, ch) ==
  LET r == cs.inv["as"] IN
  IF r.outcome = "none" THEN Finish(c, cs, ch)
  ELSE IF r.outcome = "rejected" /\ r.proc = "exited"
  THEN \E launch \in Launches :
         LET as == runAssembler(platform, name_bin_directory, cs.file,
                                WithExt(cs.file, ".o"), TRUE, launch)
             cs2 == [cs EXCEPT !.inv["as"] = as]
         IN IF as.outcome = "none" THEN Finish(c, cs2, ch)
            ELSE Finish(c, [showErrorMessage(cs2, as.message) EXCEPT !.pc = "done"], ch)
  ELSE IF chainContinues(r)
  THEN \E files \in DirListings, launch \in Launches :
         LET linker_output_file == WithExt(cs.file, ".o")
             current_dir == dirname(cs.file)
             infiles == objectFiles(current_dir, files)
             ld == runLinker(name_bin_directory, infiles, linker_output_file,
                             TRUE, launch)
         IN PipelineAfterLinker(c, [cs EXCEPT !.listed = <<files>>,
                                              !.discovered = <<infiles>>,
                                              !.inv["ld"] = ld], ch)
  ELSE Finish(c, [showErrorMessage(cs, r.message) EXCEPT !.pc = "done"], ch)

\* The callbacks on runAssembler's promise in the chain.
PipelineAfterAssembler(c, cs, ch) ==
  LET r == cs.inv["as"] IN
  IF r.outcome = "none" THEN Finish(c, cs, ch)
  ELSE IF chainContinues(r)
  THEN \E files \in DirListings, launch \in Launches :
         LET linker_output_file == WithExt(cs.file, ".o")
             current_dir == dirname(cs.file)
             infiles == objectFiles(current_dir, files)
             ld == runLinker(name_bin_directory, infiles, linker_output_file,
                             TRUE, launch)
         IN PipelineAfterLinker(c, [cs EXCEPT !.listed = <<files>>,
                                              !.discovered = <<infiles>>,
                                              !.inv["ld"] = ld], ch)
  ELSE Finish(c, [showErrorMessage(cs, r.message) EXCEPT !.pc = "done"], ch)

\* The handler of name-ext.assemblerunnodebug.
AssembleRunNoDebugCommand(c) ==
  /\ CanStart(c)
  /\ \E currently_open_file \in ActiveFiles :
       IF currently_open_file = undefined
       THEN Finish(c, NoFileOpen("assemblerunnodebug"), channel)
       ELSE \E launch \in Launches :
              LET assembler_output_file == WithExt(currently_open_file, ".o")
                  as == runAssembler(platform, name_bin_directory, currently_open_file,
                                     assembler_output_file, TRUE, launch)
                  cs == Started("assemblerunnodebug", currently_open_file)
              IN PipelineAfterAssembler(c, [cs EXCEPT !.inv["as"] = as], channel)

\* ------------------------------------------------- the single-stage commands

\* The callbacks on the promise of a single-stage command.
StandaloneAfter(c, cs, ch, t) ==
  LET r == cs.inv[t] IN
  IF r.outcome = "none" THEN Finish(c, cs, ch)
  ELSE Finish(c, [notifyOutcome(cs, r) EXCEPT !.pc = "done"], ch)

\* An assemble command that takes chained from the commands in flight: true
\* while a chain is running.
AssembleCommand_ambientChained(c) ==
  /\ CanStart(c)
  /\ \E currently_open_file \in ActiveFiles :
       IF currently_open_file = undefined
       THEN Finish(c, NoFileOpen("assemblecurrentfile"), channel)
       ELSE \E launch \in Launches :
              LET output_file == WithExt(currently_open_file, ".o")
                  ambient == \E d \in Cmds : /\ cmds[d].kind = "assemblerunnodebug"
                                             /\ cmds[d].pc = "running"
                  as == runAssembler(platform, name_bin_directory, currently_open_file,
                                     output_file, ambient, launch)
                  cs == Started("assemblecurrentfile", currently_open_file)
              IN StandaloneAfter(c, [cs EXCEPT !.inv["as"] = as], channel, "as")

\* The handler of name-ext.assemblecurrentfile.
AssembleCommand(c) ==
  /\ CanStart(c)
  /\ \E currently_open_file \in ActiveFiles :
       IF currently_open_file = undefined
       THEN Finish(c, NoFileOpen("assemblecurrentfile"), channel)
       ELSE \E launch \in Launches :
              LET output_file == WithExt(currently_open_file, ".o")
                  as == runAssembler(platform, name_bin_directory, currently_open_file,
                                     output_file, FALSE, launch)
                  cs == Started("assemblecurrentfile", currently_open_file)
              IN StandaloneAfter(c, [cs EXCEPT !.inv["as"] = as], channel, "as")

\* The handler of name-ext.linkcurrentfile up to its await of readDirectory.
LinkCommand(c) ==
  /\ CanStart(c)
  /\ \E currently_open_file \in ActiveFiles :
       IF currently_open_file = undefined
       THEN Finish(c, NoFileOpen("linkcurrentfile"), channel)
       ELSE Finish(c, [Started("linkcurrentfile", currently_open_file)
                         EXCEPT !.pc = "listing"], channel)

\* The handler of name-ext.linkcurrentfile after readDirectory has answered.
LinkCommandResume(c) ==
  /\ cmds[c].kind = "linkcurrentfile"
  /\ cmds[c].pc = "listing"
  /\ \E files \in DirListings, launch \in Launches :
       LET cs == cmds[c]
           current_dir == dirname(cs.file)
           infiles == objectFilesOfTypeFile(current_dir, files)
           output_file == WithExt(cs.file, "")
           ld == runLinker(name_bin_directory, infiles, output_file, FALSE, launch)
       IN StandaloneAfter(c, [cs EXCEPT !.pc = "running",
                                        !.listed = <<files>>,
                                        !.discovered = <<infiles>>,
                                        !.inv["ld"] = ld],
                          channel, "ld")

\* The handler of name-ext.runnodebug.
RunNoDebugCommand(c) ==
  /\ CanStart(c)
  /\ \E currently_open_file \in ActiveFiles :
       IF currently_open_file = undefined
       THEN Finish(c, NoFileOpen("runnodebug"), channel)
       ELSE \E launch \in TerminalLaunches :
              LET file_to_run == WithExt(currently_open_file, "")
                  emu == runWithoutDebugging(platform, name_bin_directory,
                                             file_to_run, launch)
                  cs == Started("runnodebug", currently_open_file)
              IN StandaloneAfter(c, [cs EXCEPT !.inv["emu"] = emu], channel, "emu")

\* ------------------------------------------------------ child-process events

\* A 'data' handler whose hasErrors and errorBuffer are shared by every running
\* invocation of the same tool instead of being locals of one call.
StderrData_sharedBuffer(c, t) ==
  /\ t \in {"as", "ld"}
  /\ cmds[c].inv[t].st = "running"
  /\ cmds[c].inv[t].proc = "running"
  /\ cmds[c].inv[t].written < MaxChunks
  /\ LET data == Chunk(c, t, cmds[c].inv[t].written + 1)
     IN cmds' = [d \in Cmds |->
                  IF d = c
                  THEN [cmds[d] EXCEPT !.inv[t] =
                          onStderrData([@ EXCEPT !.written = @ + 1], data)]
                  ELSE IF cmds[d].inv[t].st = "running"
                       THEN [cmds[d] EXCEPT !.inv[t] = onStderrData(@, data)]
                       ELSE cmds[d]]
  /\ UNCHANGED <<platform, channel, file_chained>>

\* A running assembler or linker writes a chunk to its error stream and the
\* stream's 'data' event delivers it (chunks arrive in the order written).
StderrData(c, t) ==
  /\ t \in {"as", "ld"}
  /\ cmds[c].inv[t].st = "running"
  /\ cmds[c].inv[t].proc = "running"
  /\ cmds[c].inv[t].written < MaxChunks
  /\ LET r == cmds[c].inv[t]
         data == Chunk(c, t, r.written + 1)
     IN cmds' = [cmds EXCEPT ![c].inv[t] =
                   onStderrData([r EXCEPT !.written = @ + 1], data)]
  /\ UNCHANGED <<platform, channel, file_chained>>

\* The child has exited and its streams have ended: 'close' is emitted after
\* every 'data' event of the child.
CanClose(c, t) ==
  /\ cmds[c].inv[t].st = "running"
  /\ cmds[c].inv[t].proc = "running"

\* An assembler whose 'close' handler appends without clearing the channel.
AssemblerClose_noClear(c) ==
  /\ CanClose(c, "as")
  /\ \E code \in ExitCodes :
     LET r == cmds[c].inv["as"]
         cs == [cmds[c] EXCEPT !.inv["as"] = assemblerOnClose(r, code)]
         ch == [channel EXCEPT !["NAME-AS"] = @ \o assemblerText(r)]
     IN IF cs.kind = "assemblerunnodebug"
        THEN PipelineAfterAssembler(c, cs, ch)
        ELSE StandaloneAfter(c, cs, ch, "as")

\* The assembler's 'close' event, and the callbacks on its promise.
AssemblerClose(c) ==
  /\ CanClose(c, "as")
  /\ \E code \in ExitCodes :
     LET r == cmds[c].inv["as"]
         cs == [cmds[c] EXCEPT !.inv["as"] = assemblerOnClose(r, code)]
         ch == [channel EXCEPT !["NAME-AS"] = assemblerText(r)]
     IN IF cs.kind = "assemblerunnodebug"
        THEN PipelineAfterAssembler(c, cs, ch)
        ELSE StandaloneAfter(c, cs, ch, "as")

\* A linker whose 'close' handler publishes to the assembler's channel.
LinkerClose_sharedChannel(c) ==
  /\ CanClose(c, "ld")
  /\ \E code \in ExitCodes :
     LET r == cmds[c].inv["ld"]
         cs == [cmds[c] EXCEPT !.inv["ld"] = linkerOnClose(r, code)]
         ch == [channel EXCEPT !["NAME-AS"] = linkerText(r)]
     IN IF cs.kind = "assemblerunnodebug"
        THEN PipelineAfterLinker(c, cs, ch)
        ELSE StandaloneAfter(c, cs, ch, "ld")

\* The linker's 'close' event, and the callbacks on its promise.
LinkerClose(c) ==
  /\ CanClose(c, "ld")
  /\ \E code \in ExitCodes :
     LET r == cmds[c].inv["ld"]
         cs == [cmds[c] EXCEPT !.inv["ld"] = linkerOnClose(r, code)]
         ch == [channel EXCEPT !["NAME"] = linkerText(r)]
     IN IF cs.kind = "assemblerunnodebug"
        THEN PipelineAfterLinker(c, cs, ch)
        ELSE StandaloneAfter(c, cs, ch, "ld")

\* The runner in its terminal writes a chunk of output (to its standard output
\* or its error stream); the extension does not listen to either.
RuntimeWrite(c) ==
  /\ cmds[c].inv["emu"].proc = "running"
  /\ cmds[c].inv["emu"].written < MaxChunks
  /\ cmds' = [cmds EXCEPT ![c].inv["emu"].written = @ + 1]
  /\ UNCHANGED <<platform, channel, file_chained>>

\* The runner terminating with what it wrote rendered to the channel 'NAME'.
RuntimeExit_rendersOutput(c) ==
  /\ cmds[c].inv["emu"].proc = "running"
  /\ cmds' = [cmds EXCEPT ![c].inv["emu"].proc = "exited",
                          ![c].inv["emu"].updates = @ + 1]
  /\ channel' = [channel EXCEPT !["NAME"] =
                   [i \in 1..cmds[c].inv["emu"].written |-> Chunk(c, "emu", i)]]
  /\ UNCHANGED <<platform, file_chained>>

\* The runner in its terminal terminates.
RuntimeExit(c) ==
  /\ cmds[c].inv["emu"].proc = "running"
  /\ cmds' = [cmds EXCEPT ![c].inv["emu"].proc = "exited"]
  /\ UNCHANGED <<platform, channel, file_chained>>

Next ==
  \E c \in Cmds :
    \/ AssembleCommand(c)
    \/ LinkCommand(c)
    \/ LinkCommandResume(c)
    \/ RunNoDebugCommand(c)
    \/ AssembleRunNoDebugCommand(c)
    \/ StderrData(c, "as")
    \/ StderrData(c, "ld")
    \/ AssemblerClose(c)
    \/ LinkerClose(c)
    \/ RuntimeWrite(c)
    \/ RuntimeExit(c)

Spec == Init /\ [][Next]_vars

\* ------------------------------------------------------------------ claims

IsPipeline(c) == cmds[c].kind = "assemblerunnodebug"

Inv(c, t) == cmds[c].inv[t]

\* The existence check of the invocation found no binary.
Missing(r) == r.checked /\ ~r.existed

\* The child of the invocation closed and had written to its error stream.
ClosedWithStderr(r) == r.proc = "exited" /\ r.written > 0

\* The child of the invocation closed and had written nothing to it.
ClosedClean(r) == r.proc = "exited" /\ r.written = 0

NotInvoked(r) == r.st = "none" /\ r.spawned = 0 /\ r.proc = "none" /\ ~r.checked

ErrorNote(m) == [type |-> "error", msg |-> m]

InfoNote(m) == [type |-> "info", msg |-> m]

\* C1: in the assemble-link-run chain, once the assembler stage has failed
\* (binary missing, or stderr output at close) the linker and the runtime are
\* not invoked: no existence check, no process, no terminal.
C1_AssemblerFailureStopsChain ==
  \A c \in Cmds :
    (IsPipeline(c) /\ (Missing(Inv(c, "as")) \/ ClosedWithStderr(Inv(c, "as"))))
      => (NotInvoked(Inv(c, "ld")) /\ NotInvoked(Inv(c, "emu")))

\* A finished chain whose assembler wrote to stderr, and one whose assembler
\* binary was missing.
C1_Witness ==
  /\ IsPipeline(1) /\ cmds[1].pc = "done" /\ ClosedWithStderr(Inv(1, "as"))
  /\ IsPipeline(2) /\ cmds[2].pc = "done" /\ Missing(Inv(2, "as"))

\* C2: the chain is strictly sequential: the linker is invoked only after the
\* assembler's child has closed and its promise resolved, the runtime only
\* after the linker's child has closed and its promise resolved.
C2_StagesSequential ==
  \A c \in Cmds :
    IsPipeline(c) =>
      /\ Inv(c, "ld").st # "none" =>
           (Inv(c, "as").proc = "exited" /\ Inv(c, "as").outcome = "resolved")
      /\ Inv(c, "emu").st # "none" =>
           (Inv(c, "ld").proc = "exited" /\ Inv(c, "ld").outcome = "resolved")

\* A chain whose linker is running, and a chain that reached the runtime.
C2_Witness ==
  /\ IsPipeline(1) /\ Inv(1, "ld").proc = "running"
  /\ IsPipeline(2) /\ Inv(2, "emu").spawned = 1

\* C3: in the chain, once the linker stage has failed (binary missing, or
\* stderr output at close) the runtime is not invoked and the run has ended
\* with the linker's rejection as its one error notification.
C3_LinkerFailureStopsChain ==
  \A c \in Cmds :
    (IsPipeline(c) /\ (Missing(Inv(c, "ld")) \/ ClosedWithStderr(Inv(c, "ld"))))
      => /\ NotInvoked(Inv(c, "emu"))
         /\ Inv(c, "ld").outcome = "rejected"
         /\ cmds[c].pc = "done"
         /\ cmds[c].notes = << ErrorNote(Inv(c, "ld").message) >>

\* A chain whose linker wrote to stderr, and one whose linker was missing.
C3_Witness ==
  /\ IsPipeline(1) /\ ClosedWithStderr(Inv(1, "ld"))
  /\ IsPipeline(2) /\ Missing(Inv(2, "ld"))

\* C4: runAssembler and runLinker reject whenever the child wrote at least one
\* chunk to its error stream before it closed, whatever the exit code.
C4_StderrMeansFailure ==
  \A c \in Cmds : \A t \in {"as", "ld"} :
    ClosedWithStderr(Inv(c, t)) => Inv(c, t).outcome = "rejected"

\* An assembler and a linker that wrote to stderr and exited with code 0.
C4_Witness ==
  /\ ClosedWithStderr(Inv(1, "as")) /\ Inv(1, "as").code = 0
  /\ ClosedWithStderr(Inv(2, "ld")) /\ Inv(2, "ld").code = 0

\* C5: runAssembler and runLinker resolve with their success message whenever
\* the child closed having written nothing to its error stream, whatever the
\* exit code.
C5_NoStderrMeansSuccess ==
  \A c \in Cmds :
    /\ ClosedClean(Inv(c, "as")) =>
         /\ Inv(c, "as").outcome = "resolved"
         /\ Inv(c, "as").message = Msg("Assembly was successful.")
    /\ ClosedClean(Inv(c, "ld")) =>
         /\ Inv(c, "ld").outcome = "resolved"
         /\ Inv(c, "ld").message = Msg("Linking was successful.")

\* An assembler and a linker that wrote nothing and exited with a non-zero code.
C5_Witness ==
  /\ ClosedClean(Inv(1, "as")) /\ Inv(1, "as").code = 1
  /\ ClosedClean(Inv(2, "ld")) /\ Inv(2, "ld").code = 1

NotFoundText(t) ==
  CASE t = "as" -> "Assembler not found at path: "
    [] t = "ld" -> "Linker not found at path: "
    [] OTHER    -> "Runner not found at path: "

\* C6: for each of the three invokers, when the computed binary path does not
\* exist the promise is rejected with the not-found message naming that path
\* and no child process or terminal is created; a process or terminal is only
\* ever created after a successful existence check.
C6_MissingBinaryNeverSpawns ==
  \A c \in Cmds : \A t \in Tools :
    /\ Missing(Inv(c, t)) =>
         /\ Inv(c, t).outcome = "rejected"
         /\ Inv(c, t).binPath # NoPath
         /\ Inv(c, t).message = MsgPath(NotFoundText(t), Inv(c, t).binPath)
         /\ Inv(c, t).spawned = 0
         /\ Inv(c, t).proc = "none"
    /\ Inv(c, t).spawned > 0 => (Inv(c, t).checked /\ Inv(c, t).existed)

\* A chain stopped by a missing linker, and a run command whose runner is
\* missing.
C6_Witness ==
  /\ IsPipeline(1) /\ Missing(Inv(1, "ld"))
  /\ cmds[2].kind = "runnodebug" /\ Missing(Inv(2, "emu"))

C9_ChainedNeverReveals ==
  \A c \in Cmds :
    IsPipeline(c) => (Inv(c, "as").shows = 0 /\ Inv(c, "ld").shows = 0)

\* C10: a standalone assemble or link command whose tool has closed has shown
\* its output channel exactly once, on success and on failure alike, and not
\* before the tool closed.
C10_StandaloneRevealsOnce ==
  \A c \in Cmds :
    /\ cmds[c].kind = "assemblecurrentfile" =>
         Inv(c, "as").shows = (IF Inv(c, "as").proc = "exited" THEN 1 ELSE 0)
    /\ cmds[c].kind = "linkcurrentfile" =>
         Inv(c, "ld").shows = (IF Inv(c, "ld").proc = "exited" THEN 1 ELSE 0)

\* A standalone assemble that succeeded and a standalone link that failed.
C10_Witness ==
  /\ cmds[1].kind = "assemblecurrentfile" /\ ClosedClean(Inv(1, "as"))
  /\ cmds[2].kind = "linkcurrentfile" /\ ClosedWithStderr(Inv(2, "ld"))

\* C11 as stated: every settled invocation of an invoker has updated its
\* output channel exactly once and has spawned at most one child.
C11_Original ==
  \A c \in Cmds : \A t \in Tools :
    Inv(c, t).st = "settled" =>
      (Inv(c, t).updates = 1 /\ Inv(c, t).spawned <= 1)

\* C11 amended: an invocation of runAssembler or runLinker updates its output
\* channel exactly once, when its child closes, and not at all when it ends
\* without a child (binary missing, unknown platform, spawn error);
\* runWithoutDebugging never updates a channel; every invocation creates at
\* most one child process or terminal.
C11_OneUpdatePerClosedChild ==
  \A c \in Cmds : \A t \in Tools :
    /\ Inv(c, t).updates =
         (IF t \in {"as", "ld"} /\ Inv(c, t).proc = "exited" THEN 1 ELSE 0)
    /\ Inv(c, t).spawned <= 1

\* A chain whose assembler closed and whose linker was missing, beside a run
\* command that launched the runner.
C11_Witness ==
  /\ IsPipeline(1) /\ ClosedClean(Inv(1, "as")) /\ Inv(1, "as").updates = 1
  /\ Missing(Inv(1, "ld")) /\ Inv(1, "ld").updates = 0
  /\ Inv(2, "emu").spawned = 1 /\ Inv(2, "emu").updates = 0

\* C12: in the chain the assembler is given the source path with its extension
\* replaced by '.o', and the linker's output path and the runtime's input path
\* are the source path with its extension stripped.
C12_PipelinePaths ==
  \A c \in Cmds :
    IsPipeline(c) =>
      /\ Inv(c, "as").argv # <<>> =>
           Inv(c, "as").argv = << cmds[c].file, WithExt(cmds[c].file, ".o") >>
      /\ Inv(c, "ld").argv # <<>> =>
           Inv(c, "ld").argv[2] = WithExt(cmds[c].file, "")
      /\ Inv(c, "emu").argv # <<>> =>
           Inv(c, "emu").argv = << WithExt(cmds[c].file, "") >>

ToolName(t) ==
  CASE t = "as" -> "name-as"
    [] t = "ld" -> "name-ld"
    [] OTHER    -> "name-emu"

\* C13: every invoker checks, and launches, the binary at the bin directory
\* joined with getBinName of its tool's name.
C13_ResolvedBinaryPath ==
  \A c \in Cmds : \A t \in Tools :
    Inv(c, t).checked =>
      Inv(c, t).binPath =
        join(name_bin_directory, getBinName(platform, ToolName(t)).name)

\* C14: getBinName gives '<name>.exe' on Windows, '<name>_x86_64.app' on macOS
\* x86-64, '<name>_arm64.app' on macOS arm64, '<name>.bin' on Linux and throws
\* on, and only on, any other platform; runAssembler and runWithoutDebugging
\* check that name in the bin directory, or reject with the thrown error.
C14_GetBinNameTable ==
  /\ \A n \in {"name-as", "name-ld", "name-emu"} :
       LET b == getBinName(platform, n) IN
       /\ platform.platform = "win32" => (b.ok /\ b.name = <<n, ".exe">>)
       /\ (platform.platform = "darwin" /\ platform.arch = "x64")
            => (b.ok /\ b.name = <<n, "_x86_64", ".app">>)
       /\ (platform.platform = "darwin" /\ platform.arch = "arm64")
            => (b.ok /\ b.name = <<n, "_arm64", ".app">>)
       /\ platform.platform = "linux" => (b.ok /\ b.name = <<n, ".bin">>)
       /\ b.ok <=> platform.platform \in {"win32", "darwin", "linux"}
  /\ \A c \in Cmds : \A t \in {"as", "emu"} :
       Inv(c, t).st # "none" =>
         IF platform.platform \in {"win32", "darwin", "linux"}
         THEN /\ Inv(c, t).checked
              /\ Inv(c, t).binPath.base[1] = ToolName(t)
              /\ Inv(c, t).binPath.base[Len(Inv(c, t).binPath.base)] =
                   (CASE platform.platform = "win32" -> ".exe"
                      [] platform.platform = "darwin" -> ".app"
                      [] OTHER -> ".bin")
         ELSE /\ ~Inv(c, t).checked
              /\ Inv(c, t).outcome = "rejected"
              /\ Inv(c, t).message = Msg("Unknown platform")

\* On macOS arm64 the assembler and the runner have been looked up.
C14_Witness ==
  /\ platform = [platform |-> "darwin", arch |-> "arm64"]
  /\ Inv(1, "as").binPath = join(name_bin_directory, <<"name-as", "_arm64", ".app">>)
  /\ Inv(2, "emu").binPath = join(name_bin_directory, <<"name-emu", "_arm64", ".app">>)

FailText(t) ==
  IF t = "as" THEN "Assembly failed. Check output for details."
  ELSE "Linking failed. Check output for details."

\* C15 as stated: the rejection of a tool that wrote to its error stream
\* carries the captured error text.
C15_Original ==
  \A c \in Cmds : \A t \in {"as", "ld"} :
    ClosedWithStderr(Inv(c, t)) =>
      Inv(c, t).message.stderr = Inv(c, t).errorBuffer

\* C15 amended: the rejection of a tool that wrote to its error stream, and
\* the error notification the command shows for it, carry the tool's fixed
\* failure message and none of the captured error text.
C15_FixedFailureMessage ==
  \A c \in Cmds : \A t \in {"as", "ld"} :
    ClosedWithStderr(Inv(c, t)) =>
      /\ Inv(c, t).errorBuffer # <<>>
      /\ Inv(c, t).outcome = "rejected"
      /\ Inv(c, t).message = Msg(FailText(t))
      /\ cmds[c].notes = << ErrorNote(Msg(FailText(t))) >>

\* A chain stopped by an assembler that wrote two chunks, shown in the
\* assembler's channel, and a standalone link that failed.
C15_Witness ==
  /\ IsPipeline(1) /\ ClosedWithStderr(Inv(1, "as"))
  /\ channel["NAME-AS"] = << Chunk(1, "as", 1), Chunk(1, "as", 2) >>
  /\ cmds[1].notes = << ErrorNote(Msg("Assembly failed. Check output for details.")) >>
  /\ cmds[2].kind = "linkcurrentfile" /\ ClosedWithStderr(Inv(2, "ld"))

RECURSIVE WrittenChunks(_, _, _)
\* The first n chunks tool t of command c wrote, in the order written.
WrittenChunks(c, t, n) ==
  IF n = 0 THEN <<>> ELSE Append(WrittenChunks(c, t, n - 1), Chunk(c, t, n))

ChannelOf(t) == IF t = "as" THEN "NAME-AS" ELSE "NAME"

SuccessText(t) ==
  IF t = "as" THEN "File assembled successfully." ELSE "Files linked successfully."

\* C16: the step in which the child of runAssembler or runLinker closes leaves
\* in that tool's output channel exactly the chunks the child wrote, in the
\* order written, or exactly the canned success message if it wrote none.
C16_ChannelTextAtClose ==
  [][ \A c \in Cmds : \A t \in {"as", "ld"} :
        (cmds[c].inv[t].proc = "running" /\ cmds'[c].inv[t].proc = "exited") =>
          channel'[ChannelOf(t)] =
            (IF cmds[c].inv[t].written > 0
             THEN WrittenChunks(c, t, cmds[c].inv[t].written)
             ELSE << Text(SuccessText(t)) >>) ]_vars

\* The second command's assembler closed after two chunks, over the success
\* text the first command had left in the channel; the linker's channel holds
\* the first command's success text.
C16_Witness ==
  /\ ClosedClean(Inv(1, "as")) /\ ClosedClean(Inv(1, "ld"))
  /\ Inv(2, "as").proc = "exited" /\ Inv(2, "as").written = 2
  /\ channel["NAME-AS"] = << Chunk(2, "as", 1), Chunk(2, "as", 2) >>
  /\ channel["NAME"] = << Text("Files linked successfully.") >>

\* C17: an assembler or linker whose binary exists but whose child could not
\* be started has settled, rejected with the OS error.
C17_SpawnErrorSettles ==
  \A c \in Cmds : \A t \in {"as", "ld"} :
    (Inv(c, t).checked /\ Inv(c, t).existed /\ Inv(c, t).spawned = 0) =>
      /\ Inv(c, t).st = "settled"
      /\ Inv(c, t).outcome = "rejected"
      /\ Inv(c, t).message = Msg("spawn error")

\* Discovery of the link inputs of command c ran and found no object file.
DiscoveryEmpty(c) == cmds[c].discovered = << <<>> >>

\* C18 as stated: after a discovery that found no object file the linker is
\* not run, and the operation does not end with the linker's own outcome.
C18_Original ==
  \A c \in Cmds :
    DiscoveryEmpty(c) =>
      /\ Inv(c, "ld").spawned = 0
      /\ Inv(c, "ld").outcome # "resolved"
      /\ Inv(c, "ld").message # Msg(FailText("ld"))

\* C18 amended: after a discovery that found no object file the linker is
\* invoked all the same: its binary is looked up, a child it starts gets only
\* the output flag and the output path, and a rejection is one of the
\* linker's own (not found, spawn error, linking failed).
C18_LinkerRunsOnEmptySet ==
  \A c \in Cmds :
    DiscoveryEmpty(c) =>
      /\ Inv(c, "ld").st # "none"
      /\ Inv(c, "ld").checked
      /\ Inv(c, "ld").spawned = 1 =>
           /\ Len(Inv(c, "ld").argv) = 2
           /\ Inv(c, "ld").argv[1] = <<"--output-filename">>
      /\ Inv(c, "ld").outcome = "rejected" =>
           Inv(c, "ld").message \in
             { MsgPath("Linker not found at path: ", Inv(c, "ld").binPath),
               Msg("spawn error"), Msg(FailText("ld")) }

\* A standalone link that found no object file, ran the linker on nothing and
\* reported its success; a chain whose linker, given nothing, failed.
C18_Witness ==
  /\ cmds[1].kind = "linkcurrentfile" /\ DiscoveryEmpty(1)
  /\ Inv(1, "ld").spawned = 1 /\ ClosedClean(Inv(1, "ld"))
  /\ cmds[1].notes = << InfoNote(Msg("Linking was successful.")) >>
  /\ IsPipeline(2) /\ DiscoveryEmpty(2) /\ ClosedWithStderr(Inv(2, "ld"))

\* C19: a command invoked with no active file shows the error 'No file open.'
\* and is over: no tool is invoked (no existence check, no spawn), no
\* directory is listed and no output channel is updated.
C19_NoFileOpen ==
  \A c \in Cmds :
    (cmds[c].kind # "none" /\ cmds[c].file = undefined) =>
      /\ cmds[c].kind \in {"assemblecurrentfile", "linkcurrentfile", "runnodebug",
                           "assemblerunnodebug"}
      /\ cmds[c].notes = << ErrorNote(Msg("No file open.")) >>
      /\ cmds[c].pc = "done"
      /\ cmds[c].listed = <<>>
      /\ cmds[c].discovered = <<>>
      /\ \A t \in Tools :
           /\ NotInvoked(Inv(c, t))
           /\ Inv(c, t).updates = 0
           /\ Inv(c, t).shows = 0

\* The link command and the chain were both invoked with no file open.
C19_Witness ==
  /\ cmds[1].kind = "linkcurrentfile" /\ cmds[1].file = undefined
  /\ cmds[2].kind = "assemblerunnodebug" /\ cmds[2].file = undefined
  /\ cmds[2].notes = << ErrorNote(Msg("No file open.")) >>

\* C20: a chain shows at most one notification; it shows a success only when
\* the assembler, the linker and the runner all resolved, and while the
\* assembler or the linker has resolved and the next stage has no outcome yet
\* it has shown nothing.
C20_OneNotification ==
  \A c \in Cmds :
    IsPipeline(c) =>
      /\ Len(cmds[c].notes) <= 1
      /\ \A i \in 1..Len(cmds[c].notes) :
           cmds[c].notes[i].type = "info" =>
             \A t \in Tools : Inv(c, t).outcome = "resolved"
      /\ (Inv(c, "as").outcome = "resolved" /\ Inv(c, "ld").outcome = "none")
           => cmds[c].notes = <<>>
      /\ (Inv(c, "ld").outcome = "resolved" /\ Inv(c, "emu").outcome = "none")
           => cmds[c].notes = <<>>

\* One chain ran all three stages and showed the runner's success only; in
\* another the assembler has succeeded, the linker runs, nothing is shown.
C20_Witness ==
  /\ IsPipeline(1)
  /\ \A t \in Tools : Inv(1, t).outcome = "resolved"
  /\ cmds[1].notes = << InfoNote(Msg("Runner launched in terminal.")) >>
  /\ IsPipeline(2) /\ Inv(2, "as").outcome = "resolved"
  /\ Inv(2, "ld").st = "running" /\ cmds[2].notes = <<>>

\* Every spawned assembler and linker eventually closes, and the event loop
\* then runs its 'close' listener.
ToolsClose ==
  \A c \in Cmds : WF_vars(AssemblerClose(c)) /\ WF_vars(LinkerClose(c))

LiveSpec == Spec /\ ToolsClose

\* C21: a chain started with an active file eventually shows a notification.
C21_PipelineNotifies ==
  \A c \in Cmds :
    (IsPipeline(c) /\ cmds[c].file # undefined) ~> (cmds[c].notes # <<>>)

\* The input files handed to the linker of command c, as a set.
LinkInputs(c) ==
  { Inv(c, "ld").argv[i] : i \in 3..Len(Inv(c, "ld").argv) }

\* C22: a chain and a link command run on the same source file and the same
\* directory listing give the linker the same output path and the same set
\* of input files.
C22_LinkStageSameAsLinkCommand ==
  \A p \in Cmds : \A l \in Cmds :
    ( /\ IsPipeline(p) /\ cmds[l].kind = "linkcurrentfile"
      /\ cmds[p].file = cmds[l].file
      /\ cmds[p].listed # <<>> /\ cmds[p].listed = cmds[l].listed
      /\ Inv(p, "ld").argv # <<>> /\ Inv(l, "ld").argv # <<>> )
    => /\ Inv(p, "ld").argv[2] = Inv(l, "ld").argv[2]
       /\ LinkInputs(p) = LinkInputs(l)

\* C23: a launched runner was started with an argument vector and no
\* command line for a shell to parse.
C23_RunnerNoShell ==
  \A c \in Cmds :
    Inv(c, "emu").spawned = 1 => Inv(c, "emu").commandLine = <<>>

\* The text of the output channels holds a chunk written by a runner.
RunnerTextInChannel(c) ==
  \E n \in Channels : \E i \in 1..Len(channel[n]) :
    \E k \in 1..MaxChunks : channel[n][i] = Chunk(c, "emu", k)

C25_InvocationsIndependent ==
  \A c \in Cmds : \A t \in {"as", "ld"} :
    /\ Inv(c, t).errorBuffer = WrittenChunks(c, t, Inv(c, t).written)
    /\ Inv(c, t).hasErrors <=> Inv(c, t).written > 0
    /\ Inv(c, t).proc = "exited" =>
         /\ Inv(c, t).st = "settled"
         /\ Inv(c, t).outcome = "rejected" <=> Inv(c, t).written > 0

\* Two assemble commands overlapped: the second one's assembler closed clean
\* and resolved while the first one's had already written and still runs.
C25_Witness ==
  /\ cmds[1].kind = "assemblecurrentfile" /\ cmds[2].kind = "assemblecurrentfile"
  /\ Inv(1, "as").st = "running" /\ Inv(1, "as").written = 1
  /\ ClosedClean(Inv(2, "as")) /\ Inv(2, "as").outcome = "resolved"

\* How the spawn of an invocation went, read off its record.
SpawnResultOf(r) ==
  IF r.spawned = 1 THEN "ok"
  ELSE IF r.st = "stuck" THEN "errorEvent"
  ELSE IF r.message = Msg("spawn error") THEN "throw"
  ELSE "none"

\* What the environment answered to tool t of command c: the existence check,
\* the spawn, the chunks the child wrote, whether it has closed, its exit code.
ToolInputs(c, t) ==
  [ existed |-> Inv(c, t).existed, spawn |-> SpawnResultOf(Inv(c, t)),
    written |-> Inv(c, t).written, proc |-> Inv(c, t).proc,
    code |-> Inv(c, t).code ]

\* What the environment answered to command c: the active file, the directory
\* listing, and the answers to each tool.
InputsOf(c) ==
  [ file |-> cmds[c].file, listed |-> cmds[c].listed,
    tool |-> [t \in Tools |-> ToolInputs(c, t)] ]

\* What tool t of command c did (error chunks counted, not compared: a chunk
\* names the child that wrote it).
ToolConduct(c, t) == [Inv(c, t) EXCEPT !.errorBuffer = Len(@)]

\* Everything command c did: its stages, their paths, arguments, outcomes and
\* messages, its notifications (error chunks counted, not compared: a chunk
\* names the child that wrote it).
ConductOf(c) ==
  [ cmds[c] EXCEPT !.inv = [t \in Tools |-> [@[t] EXCEPT !.errorBuffer = Len(@)]] ]

\* C26: two chains on the same file did the same as far as their environment
\* answered alike, whatever the output channels held when each of them ran
\* and whatever was published to the channels meanwhile: with the same
\* answers to the assembler, the same assembler stage and the same decision to
\* go on to discovery; with the same listing and answers to the linker too,
\* the same linker stage and the same decision to go on to the runner; with
\* the same answers throughout, the same stages, arguments, outcomes and
\* notifications.
C26_SinkNeverRead ==
  \A p \in Cmds : \A q \in Cmds :
    (IsPipeline(p) /\ IsPipeline(q) /\ cmds[p].file = cmds[q].file) =>
      /\ ToolInputs(p, "as") = ToolInputs(q, "as") =>
           /\ ToolConduct(p, "as") = ToolConduct(q, "as")
           /\ (cmds[p].listed = <<>>) <=> (cmds[q].listed = <<>>)
           /\ cmds[p].listed = <<>> =>
                (cmds[p].notes = cmds[q].notes /\ cmds[p].pc = cmds[q].pc)
      /\ ( /\ ToolInputs(p, "as") = ToolInputs(q, "as")
           /\ cmds[p].listed = cmds[q].listed
           /\ ToolInputs(p, "ld") = ToolInputs(q, "ld") ) =>
           /\ ToolConduct(p, "ld") = ToolConduct(q, "ld")
           /\ cmds[p].discovered = cmds[q].discovered
           /\ (Inv(p, "emu").st = "none") <=> (Inv(q, "emu").st = "none")
           /\ Inv(p, "emu").st = "none" =>
                (cmds[p].notes = cmds[q].notes /\ cmds[p].pc = cmds[q].pc)
      /\ InputsOf(p) = InputsOf(q) => ConductOf(p) = ConductOf(q)

\* Two chains ran to the end alike; the first started with empty channels, the
\* second after the first had filled both.
C26_Witness ==
  /\ IsPipeline(1) /\ IsPipeline(2)
  /\ cmds[1].pc = "done" /\ cmds[2].pc = "done"
  /\ Inv(1, "emu").spawned = 1 /\ Inv(2, "emu").spawned = 1
  /\ InputsOf(1) = InputsOf(2)
  /\ channel["NAME-AS"] # <<>> /\ channel["NAME"] # <<>>

LaunchOf(r) ==
  [ binPath |-> r.binPath, checked |-> r.checked, existed |-> r.existed,
    argv |-> r.argv, spawned |-> r.spawned, commandLine |-> r.commandLine ]

\* C28: in a chain, a tool that has been invoked is never invoked or launched
\* again, whatever its outcome: its launch stays as it was, it created at most
\* one process, a process that has exited does not run again and a settled
\* outcome stays settled.
C28_NoStageRetried ==
  [][ \A c \in Cmds : \A t \in Tools :
        (IsPipeline(c) /\ cmds[c].inv[t].st # "none") =>
          /\ LaunchOf(cmds'[c].inv[t]) = LaunchOf(cmds[c].inv[t])
          /\ cmds'[c].inv[t].spawned <= 1
          /\ cmds[c].inv[t].proc = "exited" => cmds'[c].inv[t].proc = "exited"
          /\ cmds[c].inv[t].st = "settled" =>
               /\ cmds'[c].inv[t].st = "settled"
               /\ cmds'[c].inv[t].outcome = cmds[c].inv[t].outcome ]_vars

\* One chain ended on an assembler that failed, another on a linker that
\* failed; each failed tool was launched once.
C28_Witness ==
  /\ IsPipeline(1) /\ ClosedWithStderr(Inv(1, "as")) /\ cmds[1].pc = "done"
  /\ Inv(1, "as").spawned = 1
  /\ IsPipeline(2) /\ ClosedWithStderr(Inv(2, "ld")) /\ cmds[2].pc = "done"
  /\ Inv(2, "as").spawned = 1 /\ Inv(2, "ld").spawned = 1

\* The entries of a listing whose names end in '.o', in listing order.
EndingInO(files) == SelectSeq(files, LAMBDA f : f[2] = ".o")

\* The regular files among them.
RegularEndingInO(files) == SelectSeq(files, LAMBDA f : f[2] = ".o" /\ f[3] = "File")

\* Each entry joined with the directory path.
PathsIn(dir, entries) ==
  [i \in 1..Len(entries) |-> <<dir, entries[i][1], entries[i][2]>>]

C30_LinkerArgv ==
  \A c \in Cmds :
    Inv(c, "ld").argv # <<>> =>
      LET argv == Inv(c, "ld").argv
          found == IF IsPipeline(c) THEN EndingInO(cmds[c].listed[1])
                   ELSE RegularEndingInO(cmds[c].listed[1])
      IN /\ cmds[c].listed # <<>> /\ cmds[c].discovered # <<>>
         /\ Len(argv) = 2 + Len(found)
         /\ argv[1] = <<"--output-filename">>
         /\ argv[2][1] = cmds[c].file[1] /\ argv[2][2] = cmds[c].file[2]
         /\ SubSeq(argv, 3, Len(argv)) = cmds[c].discovered[1]
         /\ cmds[c].discovered[1] = PathsIn(dirname(cmds[c].file), found)
         /\ \A i \in 3..Len(argv) : \A j \in 3..Len(argv) :
              argv[i] = argv[j] => i = j

\* A chain's linker and a link command's linker both run on lib.o and fib.o,
\* in that order.
C30_Witness ==
  /\ IsPipeline(1) /\ Inv(1, "ld").spawned = 1
  /\ Len(Inv(1, "ld").argv) = 4
  /\ SubSeq(Inv(1, "ld").argv, 3, 4) = << <<"ws", "lib", ".o">>, <<"ws", "fib", ".o">> >>
  /\ cmds[2].kind = "linkcurrentfile" /\ Inv(2, "ld").spawned = 1
  /\ Inv(2, "ld").argv = << <<"--output-filename">>, <<"ws", "fib", "">>,
                            <<"ws", "lib", ".o">>, <<"ws", "fib", ".o">> >>

\* Tool t of command c closes in this step.
Closes(c, t) ==
  cmds[c].inv[t].proc = "running" /\ cmds'[c].inv[t].proc = "exited"

\* C31: the assembler's channel changes only in a step in which an assembler
\* closes and the linker's channel only in a step in which a linker closes
\* (a runner's exit changes neither); so after a chain whose three stages
\* succeeded, and with no other assembler closed, the assembler's channel
\* holds the assembler's success message.
C31_ChannelPerTool ==
  [][ /\ channel'["NAME-AS"] # channel["NAME-AS"] => \E c \in Cmds : Closes(c, "as")
      /\ channel'["NAME"] # channel["NAME"] => \E c \in Cmds : Closes(c, "ld")
      /\ (\E c \in Cmds : Closes(c, "as")) /\ ~(\E c \in Cmds : Closes(c, "ld"))
           => channel'["NAME"] = channel["NAME"]
      /\ (\E c \in Cmds : Closes(c, "ld")) /\ ~(\E c \in Cmds : Closes(c, "as"))
           => channel'["NAME-AS"] = channel["NAME-AS"]
      /\ \A c \in Cmds :
           ( /\ cmds'[c].kind = "assemblerunnodebug"
             /\ \A t \in Tools : cmds'[c].inv[t].outcome = "resolved"
             /\ \A d \in Cmds \ {c} : cmds'[d].inv["as"].proc # "exited" )
           => channel'["NAME-AS"] = << Text("File assembled successfully.") >>
    ]_vars

\* A chain succeeded in all three stages and a link command's linker failed:
\* the assembler's channel still holds the assembler's success message, the
\* linker's channel the later linker's error text.
C31_Witness ==
  /\ IsPipeline(1) /\ \A t \in Tools : Inv(1, t).outcome = "resolved"
  /\ Inv(1, "emu").proc = "exited"
  /\ cmds[2].kind = "linkcurrentfile" /\ ClosedWithStderr(Inv(2, "ld"))
  /\ channel["NAME-AS"] = << Text("File assembled successfully.") >>
  /\ channel["NAME"] = << Chunk(2, "ld", 1) >>

\* The whole text the closed invocation of tool t by command c published.
PublishedText(c, t) ==
  IF Inv(c, t).written > 0 THEN WrittenChunks(c, t, Inv(c, t).written)
  ELSE << Text(SuccessText(t)) >>

\* C32: every channel holds its initial (empty) content or the whole text
\* published by one closed invocation of its tool, never parts of two; a step
\* in which an invocation closes leaves its whole text in the channel, and no
\* other step changes the channel: the invocation that closed last wins.
C32_LastWriteWins ==
  [][ \A t \in {"as", "ld"} :
        /\ \/ channel'[ChannelOf(t)] = <<>>
           \/ \E c \in Cmds :
                /\ cmds'[c].inv[t].proc = "exited"
                /\ channel'[ChannelOf(t)] = PublishedText(c, t)'
        /\ \A c \in Cmds :
             Closes(c, t) => channel'[ChannelOf(t)] = PublishedText(c, t)'
        /\ (\A c \in Cmds : ~Closes(c, t))
             => channel'[ChannelOf(t)] = channel[ChannelOf(t)] ]_vars

\* Two assemble commands raced: the second closed clean, then the first, which
\* had written two chunks; the channel holds the first one's chunks only.
C32_Witness ==
  /\ cmds[1].kind = "assemblecurrentfile" /\ cmds[2].kind = "assemblecurrentfile"
  /\ ClosedWithStderr(Inv(1, "as")) /\ Inv(1, "as").written = 2
  /\ ClosedClean(Inv(2, "as"))
  /\ channel["NAME-AS"] = << Chunk(1, "as", 1), Chunk(1, "as", 2) >>

\* C33: the output path a chain hands to the linker is none of the input
\* files it hands to it.
C33_OutputNotAnInput ==
  \A c \in Cmds :
    (IsPipeline(c) /\ Inv(c, "ld").argv # <<>>) =>
      Inv(c, "ld").argv[2] \notin LinkInputs(c)

\* C34: every assembler and linker invocation runs with the chained setting
\* of its own command, true in a chain and false in a standalone command,
\* whatever other commands are in flight; and a standalone command whose
\* tool has closed revealed its channel.
C34_ChainedNotLeaked ==
  \A c \in Cmds : \A t \in {"as", "ld"} :
    Inv(c, t).st # "none" =>
      /\ Inv(c, t).chained <=> IsPipeline(c)
      /\ (~IsPipeline(c) /\ Inv(c, t).proc = "exited") => Inv(c, t).shows = 1

\* An assemble command was started and has closed, revealing its channel,
\* while a chain started before it is still assembling with chained = true.
C34_Witness ==
  /\ IsPipeline(1) /\ Inv(1, "as").st = "running" /\ Inv(1, "as").chained
  /\ cmds[2].kind = "assemblecurrentfile" /\ Inv(2, "as").proc = "exited"
  /\ ~Inv(2, "as").chained /\ Inv(2, "as").shows = 1

\* ---------------------------------------------------------------------------
\* The earlier commands: simple_commands.ts (one output channel 'NAME', tool
\* names without a platform suffix) and a registerCommands whose handlers
\* read a file-level flag 'chained', and whose assemble-link-run command
\* chains the other three commands with executeCommand.

SimpleChannels == {"NAME"}

\* The executor of runAssembler's promise in simple_commands.ts.
simple_runAssembler(name_bin_dir, infile, outfile, chained, launch) ==
  LET assemblerPath == join(name_bin_dir, <<"name-as">>)
      r0 == [NoInv EXCEPT !.chained = chained]
      r1 == [r0 EXCEPT !.binPath = assemblerPath, !.checked = TRUE,
                       !.existed = launch.exists]
  IN IF ~launch.exists
     THEN reject(r1, MsgPath("Assembler not found at path: ", assemblerPath))
     ELSE spawn(r1, <<infile, outfile>>, launch)

\* The executor of runWithoutDebugging's promise in simple_commands.ts.
simple_runWithoutDebugging(name_bin_dir, infile, launch) ==
  LET runnerPath == join(name_bin_dir, <<"name-emu">>)
      r1 == [NoInv EXCEPT !.binPath = runnerPath, !.checked = TRUE,
                          !.existed = launch.exists]
  IN IF ~launch.exists
     THEN reject(r1, MsgPath("Runner not found at path: ", runnerPath))
     ELSE resolve([r1 EXCEPT !.argv = <<infile>>, !.spawned = 1,
                             !.proc = "running",
                             !.commandLine = <<runnerPath, " ", infile>>],
                  Msg("Runner launched in terminal."))

\* outputChannel.show(true) calls of a 'close' handler of simple_commands.ts:
\* both branches of both handlers are guarded by !chained.
simple_shows(hasErrors, chained) == IF ~chained THEN 1 ELSE 0

\* The 'close' handlers of simple_commands.ts, but for the channel's text
\* (they ignore the exit code, which is not kept).
simple_assemblerOnClose(r, code) ==
  LET shown == [r EXCEPT !.proc = "exited", !.updates = @ + 1,
                         !.shows = @ + simple_shows(r.hasErrors, r.chained)]
  IN assemblerSettle(shown, code)

simple_linkerOnClose(r, code) ==
  LET shown == [r EXCEPT !.proc = "exited", !.updates = @ + 1,
                         !.shows = @ + simple_shows(r.hasErrors, r.chained)]
  IN linkerSettle(shown, code)

\* The older extension host: no command invoked, the flag as declared.
FlagInit ==
  /\ platform = [platform |-> "linux", arch |-> "x64"]
  /\ cmds = [c \in Cmds |-> NoCmd]
  /\ channel = [n \in SimpleChannels |-> <<>>]
  /\ file_chained = FALSE

\* The end of a turn of the event loop that assigned the file-level flag.
FinishFlag(c, cs, ch, flag) ==
  /\ cmds' = [cmds EXCEPT ![c] = cs]
  /\ channel' = ch
  /\ file_chained' = flag
  /\ UNCHANGED platform

\* The handler of name-ext.assemblecurrentfile, run with the flag reading
\* 'flag', and the callbacks on its promise if it settles in the same turn.
FlagAssembleHandler(cs, flag, launch) ==
  IF cs.file = undefined THEN showErrorMessage(cs, Msg("No file open."))
  ELSE LET output_file == WithExt(cs.file, ".o")
           as == simple_runAssembler(name_bin_directory, cs.file, output_file,
                                     flag, launch)
           cs1 == [cs EXCEPT !.inv["as"] = as]
       IN IF as.outcome = "none" THEN cs1 ELSE notifyOutcome(cs1, as)

\* The handler of name-ext.linkcurrentfile up to its await of readDirectory.
FlagLinkHandlerStart(cs) ==
  IF cs.file = undefined
  THEN [showErrorMessage(cs, Msg("No file open.")) EXCEPT !.pc = "returned"]
  ELSE [cs EXCEPT !.pc = "listing"]

\* The same handler once readDirectory has answered: the flag is read here.
FlagLinkHandlerResume(cs, flag, files, launch) ==
  LET current_dir == dirname(cs.file)
      infiles == objectFilesOfTypeFile(current_dir, files)
      output_file == WithExt(cs.file, "")
      ld == runLinker(name_bin_directory, infiles, output_file, flag, launch)
      cs1 == [cs EXCEPT !.pc = "returned", !.listed = <<files>>,
                        !.discovered = <<infiles>>, !.inv["ld"] = ld]
  IN IF ld.outcome = "none" THEN cs1 ELSE notifyOutcome(cs1, ld)

\* The handler of name-ext.runnodebug and the callbacks on its promise.
FlagRunHandler(cs, currently_open_file, launch) ==
  IF currently_open_file = undefined
  THEN showErrorMessage(cs, Msg("No file open."))
  ELSE LET file_to_run == WithExt(currently_open_file, "")
           emu == simple_runWithoutDebugging(name_bin_directory, file_to_run, launch)
       IN notifyOutcome([cs EXCEPT !.inv["emu"] = emu], emu)

\* The user runs name-ext.assemblecurrentfile.
FlagAssembleCommand(c) ==
  /\ CanStart(c)
  /\ \E currently_open_file \in ActiveFiles, launch \in Launches :
       LET cs == Started("assemblecurrentfile", currently_open_file)
       IN Finish(c, [FlagAssembleHandler(cs, file_chained, launch)
                       EXCEPT !.pc = "returned"], channel)

\* The user runs name-ext.linkcurrentfile.
FlagLinkCommand(c) ==
  /\ CanStart(c)
  /\ \E currently_open_file \in ActiveFiles :
       Finish(c, FlagLinkHandlerStart(Started("linkcurrentfile", currently_open_file)),
              channel)

\* The user runs name-ext.runnodebug.
FlagRunNoDebugCommand(c) ==
  /\ CanStart(c)
  /\ \E currently_open_file \in ActiveFiles, launch \in TerminalLaunches :
       LET cs == Started("runnodebug", currently_open_file)
       IN Finish(c, [FlagRunHandler(cs, currently_open_file, launch)
                       EXCEPT !.pc = "returned"], channel)

\* An assemble-link-run handler that never resets the flag.
FlagChainCommand_noReset(c) ==
  /\ CanStart(c)
  /\ \E currently_open_file \in ActiveFiles, launch \in Launches,
        runner \in TerminalLaunches :
       LET cs0 == Started("assemblerunnodebug", currently_open_file)
           cs1 == FlagAssembleHandler(cs0, TRUE, launch)
           cs2 == FlagLinkHandlerStart(cs1)
           cs3 == IF cs2.pc = "listing" THEN cs2
                  ELSE FlagRunHandler(cs2, currently_open_file, runner)
       IN FinishFlag(c, cs3, channel, TRUE)

\* The user runs name-ext.assemblerunnodebug.  One turn of the event loop:
\*   chained = true;
\*   executeCommand(assemble) calls the assemble handler at once (the command
\*     is registered in this extension host), which reads the flag;
\*   chained = false;
\*   then, the handler having returned undefined, the promise of
\*     executeCommand resolves and its then-callback calls the link handler,
\*     which runs up to its await of readDirectory (or returns at once when no
\*     file is open, and the next then-callback calls the run handler).
FlagChainCommand(c) ==
  /\ CanStart(c)
  /\ \E currently_open_file \in ActiveFiles, launch \in Launches,
        runner \in TerminalLaunches :
       LET cs0 == Started("assemblerunnodebug", currently_open_file)
           cs1 == FlagAssembleHandler(cs0, TRUE, launch)
           cs2 == FlagLinkHandlerStart(cs1)
           cs3 == IF cs2.pc = "listing" THEN cs2
                  ELSE FlagRunHandler(cs2, currently_open_file, runner)
       IN FinishFlag(c, cs3, channel, FALSE)

\* readDirectory answers a waiting link handler, which calls runLinker and
\* returns; in a chain the promise of executeCommand(link) then resolves and
\* its then-callback calls the run handler, which reads the active file anew.
FlagLinkCommandResume(c) ==
  /\ cmds[c].pc = "listing"
  /\ \E files \in DirListings, launch \in Launches,
        currently_open_file \in ActiveFiles, runner \in TerminalLaunches :
       LET cs1 == FlagLinkHandlerResume(cmds[c], file_chained, files, launch)
       IN IF cs1.kind = "assemblerunnodebug"
          THEN Finish(c, FlagRunHandler(cs1, currently_open_file, runner), channel)
          ELSE Finish(c, cs1, channel)

\* The first 'data' event of a running assembler's or linker's error stream.
\* Later chunks only lengthen errorBuffer, which nothing about the flag or
\* the order of the handlers reads; they are left out.
FlagStderrData(c, t) ==
  /\ t \in {"as", "ld"}
  /\ cmds[c].inv[t].st = "running"
  /\ cmds[c].inv[t].proc = "running"
  /\ ~cmds[c].inv[t].hasErrors
  /\ LET r == cmds[c].inv[t]
         data == Chunk(c, t, r.written + 1)
     IN cmds' = [cmds EXCEPT ![c].inv[t] =
                   onStderrData([r EXCEPT !.written = @ + 1], data)]
  /\ UNCHANGED <<platform, channel, file_chained>>

\* The assembler's 'close' event and the callbacks of the assemble handler.
FlagAssemblerClose(c) ==
  /\ CanClose(c, "as")
  /\ \E code \in ExitCodes :
     LET r == cmds[c].inv["as"]
         closed == simple_assemblerOnClose(r, code)
         cs == [cmds[c] EXCEPT !.inv["as"] = closed]
         ch == [channel EXCEPT !["NAME"] = assemblerText(r)]
     IN Finish(c, notifyOutcome(cs, closed), ch)

\* The linker's 'close' event and the callbacks of the link handler.
FlagLinkerClose(c) ==
  /\ CanClose(c, "ld")
  /\ \E code \in ExitCodes :
     LET r == cmds[c].inv["ld"]
         closed == simple_linkerOnClose(r, code)
         cs == [cmds[c] EXCEPT !.inv["ld"] = closed]
         ch == [channel EXCEPT !["NAME"] = linkerText(r)]
     IN Finish(c, notifyOutcome(cs, closed), ch)

\* The runner works in its terminal, out of the extension's sight: what it
\* writes and when it exits changes nothing here and is left out.
FlagNext ==
  \E c \in Cmds :
    \/ FlagAssembleCommand(c)
    \/ FlagLinkCommand(c)
    \/ FlagRunNoDebugCommand(c)
    \/ FlagChainCommand(c)
    \/ FlagLinkCommandResume(c)
    \/ FlagStderrData(c, "as")
    \/ FlagStderrData(c, "ld")
    \/ FlagAssemblerClose(c)
    \/ FlagLinkerClose(c)

FlagSpec == FlagInit /\ [][FlagNext]_vars

\* Command c is the assemble-link-run command of the earlier registerCommands.
IsChain(c) == cmds[c].kind = "assemblerunnodebug"

\* C35: in the variant with the file-level flag, the assembler and the linker
\* a chain starts are invoked with chained = true and never show the channel.
C35_ChainStagesReadTrue ==
  \A c \in Cmds : \A t \in {"as", "ld"} :
    (IsChain(c) /\ Inv(c, t).st # "none") =>
      /\ Inv(c, t).chained
      /\ Inv(c, t).shows = 0

\* C36: in the variant chained with executeCommand, the link handler of a
\* chain has not started before the chain's assembler closed, the run handler
\* has not started before its linker closed, and after a failed assembler
\* neither has run.
C36_HandlersWaitForTools ==
  \A c \in Cmds :
    IsChain(c) =>
      /\ (cmds[c].pc = "listing" \/ Inv(c, "ld").st # "none")
           => Inv(c, "as").proc = "exited"
      /\ Inv(c, "emu").st # "none" => Inv(c, "ld").proc = "exited"
      /\ Inv(c, "as").outcome = "rejected" =>
           /\ cmds[c].pc # "listing"
           /\ Inv(c, "ld").st = "none" /\ Inv(c, "emu").st = "none"

\* C37: in the variant with the file-level flag, the flag is false between
\* any two turns of the event loop, and every assembler or linker a
\* standalone command invokes runs with chained = false and, once closed, has
\* shown the channel.
C37_FlagFalseBetweenHandlers ==
  /\ file_chained = FALSE
  /\ \A c \in Cmds : \A t \in {"as", "ld"} :
       (cmds[c].kind \in {"assemblecurrentfile", "linkcurrentfile"}
          /\ Inv(c, t).st # "none") =>
         /\ ~Inv(c, t).chained
         /\ Inv(c, t).proc = "exited" => Inv(c, t).shows = 1

\* A chain's handler has returned, its assembler (chained = true) still runs;
\* an assemble command started after it ran unchained and showed the channel.
C37_Witness ==
  /\ IsChain(1) /\ Inv(1, "as").st = "running" /\ Inv(1, "as").chained
  /\ cmds[2].kind = "assemblecurrentfile" /\ Inv(2, "as").proc = "exited"
  /\ ~Inv(2, "as").chained /\ Inv(2, "as").shows = 1
  /\ file_chained = FALSE

====
